---------------------------- MODULE Spec2Model ----------------------------
(***************************************************************************)
(* A model of OpenSH (src/opsh.py): the classifier is_natural_language,    *)
(* the bounded context buffer (add_to_history / format_history), the       *)
(* translation adapters with their retry loop, run_command and the         *)
(* interactive session loop of main().                                     *)
(*                                                                         *)
(* Strings are sequences of one-character strings, so that len, slicing,   *)
(* lower(), startswith(), strip() and split() are computed as Python       *)
(* computes them.                                                          *)
(***************************************************************************)
EXTENDS Integers, Sequences, FiniteSets, TLC

VARIABLES
    PLATFORM,         \* the platform descriptor, fixed at start-up
    text,             \* classifier harness: the argument of is_natural_language
    result,           \* classifier harness: <<>>, or <<b>> for the Boolean b it returned
    command_history,  \* the context buffer: a sequence of [command, output] entries
    commands_run,     \* the session counter show_goodbye reports
    snapshot,         \* <<>>, or <<s>> for the string s format_history returned last
    pc,               \* where the session loop is: Idle, ReadInput, Translating, Running,
                      \* Sleeping, or out of the loop: Ended, Exited, Crashed
    cwd,              \* os.getcwd()
    provider,         \* config["provider"]
    api_keys,         \* the providers whose API key is set in the environment
    attempt,          \* the loop variable of the adapter's retry loop
    child,            \* the child process run_command waits for
    events            \* what the current pass of the loop has done so far, in order

vars == <<PLATFORM, text, result, command_history, commands_run, snapshot,
          pc, cwd, provider, api_keys, attempt, child, events>>

(***************************************************************************)
(* Strings                                                                 *)
(***************************************************************************)
UpperAlpha ==
  <<"A","B","C","D","E","F","G","H","I","J","K","L","M",
    "N","O","P","Q","R","S","T","U","V","W","X","Y","Z">>

LowerAlpha ==
  <<"a","b","c","d","e","f","g","h","i","j","k","l","m",
    "n","o","p","q","r","s","t","u","v","w","x","y","z">>

UpperSet == {UpperAlpha[i] : i \in 1..26}

LowerSet == {LowerAlpha[i] : i \in 1..26}

ToLower == [c \in UpperSet |-> LowerAlpha[CHOOSE i \in 1..26 : UpperAlpha[i] = c]]

ToUpper == [c \in LowerSet |-> UpperAlpha[CHOOSE i \in 1..26 : LowerAlpha[i] = c]]

\* str.lower()
lower(s) == [i \in 1..Len(s) |-> IF s[i] \in UpperSet THEN ToLower[s[i]] ELSE s[i]]

\* str.startswith(p)
startswith(s, p) == Len(p) <= Len(s) /\ SubSeq(s, 1, Len(p)) = p

\* x in lst, for a Python list lst
in_list(x, lst) == \E i \in 1..Len(lst) : lst[i] = x

\* s[k:], k counted from 0
slice_from(s, k) == SubSeq(s, k + 1, Len(s))

\* s[:k]
slice_to(s, k) == SubSeq(s, 1, IF k < Len(s) THEN k ELSE Len(s))

\* sub in s
contains(s, sub) ==
  \E a \in 1..(Len(s) - Len(sub) + 1) : SubSeq(s, a, a + Len(sub) - 1) = sub

(***************************************************************************)
(* Platform Profile                                                        *)
(***************************************************************************)
\* platform.system() as the interpreter can report it
Systems == {"Windows", "Darwin", "Linux"}

get_platform_info(system) ==
  IF system = "Windows" THEN [name |-> "Windows", shell |-> "PowerShell"]
  ELSE IF system = "Darwin" THEN [name |-> "macOS", shell |-> "zsh"]
  ELSE [name |-> "Linux", shell |-> "bash"]

(***************************************************************************)
(* Classifier tables, copied from is_natural_language                      *)
(***************************************************************************)
\* src/opsh.py lines 417-425
WindowsShellCommands ==
  <<
    <<"d","i","r">>,
    <<"c","l","s">>,
    <<"t","y","p","e">>,
    <<"c","o","p","y">>,
    <<"m","o","v","e">>,
    <<"d","e","l">>,
    <<"m","d">>,
    <<"r","d">>,
    <<"p","w","d">>,
    <<"l","s">>,
    <<"c","a","t">>,
    <<"c","l","e","a","r">>,
    <<"w","h","o","a","m","i">>,
    <<"d","a","t","e">>,
    <<"t","i","m","e">>,
    <<"i","p","c","o","n","f","i","g">>,
    <<"p","i","n","g">>,
    <<"n","e","t","s","t","a","t">>,
    <<"n","s","l","o","o","k","u","p">>,
    <<"t","r","a","c","e","r","t">>,
    <<"a","r","p">>,
    <<"t","a","s","k","l","i","s","t">>,
    <<"t","a","s","k","k","i","l","l">>,
    <<"s","y","s","t","e","m","i","n","f","o">>,
    <<"h","o","s","t","n","a","m","e">>,
    <<"v","e","r">>,
    <<"d","i","s","k","p","a","r","t">>,
    <<"c","h","k","d","s","k">>,
    <<"f","o","r","m","a","t">>,
    <<"t","r","e","e">>,
    <<"f","c">>,
    <<"c","o","m","p">>,
    <<"m","o","r","e">>,
    <<"s","o","r","t">>,
    <<"f","i","n","d">>,
    <<"f","i","n","d","s","t","r">>,
    <<"a","t","t","r","i","b">>,
    <<"x","c","o","p","y">>,
    <<"r","o","b","o","c","o","p","y">>,
    <<"w","h","e","r","e">>,
    <<"s","e","t">>,
    <<"p","a","t","h">>
  >>

\* src/opsh.py lines 426-440
WindowsShellStarters ==
  <<
    <<"c","d"," ">>,
    <<"c","d","\\">>,
    <<"c","d","/">>,
    <<"d","i","r"," ">>,
    <<"e","c","h","o"," ">>,
    <<"t","y","p","e"," ">>,
    <<"c","o","p","y"," ">>,
    <<"m","o","v","e"," ">>,
    <<"d","e","l"," ">>,
    <<"r","e","n"," ">>,
    <<"r","e","n","a","m","e"," ">>,
    <<"m","d"," ">>,
    <<"m","k","d","i","r"," ">>,
    <<"r","d"," ">>,
    <<"r","m","d","i","r"," ">>,
    <<"a","t","t","r","i","b"," ">>,
    <<"x","c","o","p","y"," ">>,
    <<"r","o","b","o","c","o","p","y"," ">>,
    <<"G","e","t","-">>,
    <<"S","e","t","-">>,
    <<"N","e","w","-">>,
    <<"R","e","m","o","v","e","-">>,
    <<"C","o","p","y","-">>,
    <<"M","o","v","e","-">>,
    <<"O","u","t","-">>,
    <<"W","r","i","t","e","-">>,
    <<"R","e","a","d","-">>,
    <<"S","t","a","r","t","-">>,
    <<"S","t","o","p","-">>,
    <<"I","n","v","o","k","e","-">>,
    <<"T","e","s","t","-">>,
    <<"S","e","l","e","c","t","-">>,
    <<"W","h","e","r","e","-">>,
    <<"F","o","r","E","a","c","h","-">>,
    <<"S","o","r","t","-">>,
    <<"G","r","o","u","p","-">>,
    <<"g","i","t"," ">>,
    <<"n","p","m"," ">>,
    <<"n","o","d","e"," ">>,
    <<"n","p","x"," ">>,
    <<"y","a","r","n"," ">>,
    <<"p","n","p","m"," ">>,
    <<"p","y","t","h","o","n"," ">>,
    <<"p","y","t","h","o","n","3"," ">>,
    <<"p","y"," ">>,
    <<"p","i","p"," ">>,
    <<"p","i","p","3"," ">>,
    <<"c","a","r","g","o"," ">>,
    <<"r","u","s","t","c"," ">>,
    <<"g","o"," ">>,
    <<"j","a","v","a"," ">>,
    <<"j","a","v","a","c"," ">>,
    <<"d","o","t","n","e","t"," ">>,
    <<"n","u","g","e","t"," ">>,
    <<"c","u","r","l"," ">>,
    <<"w","g","e","t"," ">>,
    <<"s","s","h"," ">>,
    <<"s","c","p"," ">>,
    <<"d","o","c","k","e","r"," ">>,
    <<"k","u","b","e","c","t","l"," ">>,
    <<"c","o","d","e"," ">>,
    <<"n","o","t","e","p","a","d"," ">>,
    <<"e","x","p","l","o","r","e","r"," ">>,
    <<".","/">>,
    <<".","\\">>,
    <<"/">>,
    <<"\\">>,
    <<"~">>,
    <<"$">>,
    <<">">>,
    <<">",">">>,
    <<"|">>,
    <<"&","&">>,
    <<";">>
  >>

\* src/opsh.py lines 442-453
PosixShellCommands ==
  <<
    <<"l","s">>,
    <<"p","w","d">>,
    <<"c","l","e","a","r">>,
    <<"w","h","o","a","m","i">>,
    <<"d","a","t","e">>,
    <<"c","a","l">>,
    <<"u","p","t","i","m","e">>,
    <<"t","o","p">>,
    <<"h","t","o","p">>,
    <<"p","s">>,
    <<"k","i","l","l">>,
    <<"k","i","l","l","a","l","l">>,
    <<"j","o","b","s">>,
    <<"b","g">>,
    <<"f","g">>,
    <<"c","a","t">>,
    <<"h","e","a","d">>,
    <<"t","a","i","l">>,
    <<"l","e","s","s">>,
    <<"m","o","r","e">>,
    <<"t","o","u","c","h">>,
    <<"s","t","a","t">>,
    <<"f","i","n","d">>,
    <<"g","r","e","p">>,
    <<"a","w","k">>,
    <<"s","e","d">>,
    <<"w","c">>,
    <<"s","o","r","t">>,
    <<"u","n","i","q">>,
    <<"d","i","f","f">>,
    <<"t","a","r">>,
    <<"z","i","p">>,
    <<"u","n","z","i","p">>,
    <<"g","z","i","p">>,
    <<"g","u","n","z","i","p">>,
    <<"b","z","i","p","2">>,
    <<"c","h","m","o","d">>,
    <<"c","h","o","w","n">>,
    <<"c","h","g","r","p">>,
    <<"i","d">>,
    <<"g","r","o","u","p","s">>,
    <<"p","a","s","s","w","d">>,
    <<"d","f">>,
    <<"d","u">>,
    <<"f","r","e","e">>,
    <<"m","o","u","n","t">>,
    <<"u","m","o","u","n","t">>,
    <<"p","i","n","g">>,
    <<"c","u","r","l">>,
    <<"w","g","e","t">>,
    <<"s","s","h">>,
    <<"s","c","p">>,
    <<"n","e","t","s","t","a","t">>,
    <<"i","f","c","o","n","f","i","g">>,
    <<"i","p">>,
    <<"a","p","t">>,
    <<"y","u","m">>,
    <<"d","n","f">>,
    <<"p","a","c","m","a","n">>,
    <<"b","r","e","w">>,
    <<"s","n","a","p">>,
    <<"f","l","a","t","p","a","k">>,
    <<"m","a","n">>,
    <<"w","h","i","c","h">>,
    <<"w","h","e","r","e","i","s">>,
    <<"h","i","s","t","o","r","y">>,
    <<"a","l","i","a","s">>,
    <<"s","o","u","r","c","e">>,
    <<"e","x","p","o","r","t">>
  >>

\* src/opsh.py lines 454-470
PosixShellStarters ==
  <<
    <<"c","d"," ">>,
    <<"l","s"," ">>,
    <<"l","l"," ">>,
    <<"c","a","t"," ">>,
    <<"h","e","a","d"," ">>,
    <<"t","a","i","l"," ">>,
    <<"t","o","u","c","h"," ">>,
    <<"r","m"," ">>,
    <<"c","p"," ">>,
    <<"m","v"," ">>,
    <<"m","k","d","i","r"," ">>,
    <<"r","m","d","i","r"," ">>,
    <<"c","h","m","o","d"," ">>,
    <<"c","h","o","w","n"," ">>,
    <<"l","n"," ">>,
    <<"e","c","h","o"," ">>,
    <<"g","r","e","p"," ">>,
    <<"s","e","d"," ">>,
    <<"a","w","k"," ">>,
    <<"c","u","t"," ">>,
    <<"t","r"," ">>,
    <<"x","a","r","g","s"," ">>,
    <<"g","i","t"," ">>,
    <<"n","p","m"," ">>,
    <<"n","o","d","e"," ">>,
    <<"n","p","x"," ">>,
    <<"y","a","r","n"," ">>,
    <<"p","n","p","m"," ">>,
    <<"p","y","t","h","o","n"," ">>,
    <<"p","y","t","h","o","n","3"," ">>,
    <<"p","i","p"," ">>,
    <<"p","i","p","3"," ">>,
    <<"c","a","r","g","o"," ">>,
    <<"r","u","s","t","c"," ">>,
    <<"g","o"," ">>,
    <<"j","a","v","a"," ">>,
    <<"j","a","v","a","c"," ">>,
    <<"m","a","k","e"," ">>,
    <<"c","m","a","k","e"," ">>,
    <<"g","c","c"," ">>,
    <<"g","+","+"," ">>,
    <<"c","l","a","n","g"," ">>,
    <<"b","r","e","w"," ">>,
    <<"a","p","t"," ">>,
    <<"a","p","t","-","g","e","t"," ">>,
    <<"y","u","m"," ">>,
    <<"d","n","f"," ">>,
    <<"p","a","c","m","a","n"," ">>,
    <<"s","n","a","p"," ">>,
    <<"s","u","d","o"," ">>,
    <<"s","u"," ">>,
    <<"s","s","h"," ">>,
    <<"s","c","p"," ">>,
    <<"c","u","r","l"," ">>,
    <<"w","g","e","t"," ">>,
    <<"d","o","c","k","e","r"," ">>,
    <<"k","u","b","e","c","t","l"," ">>,
    <<"a","w","s"," ">>,
    <<"g","c","l","o","u","d"," ">>,
    <<"a","z"," ">>,
    <<"v","i"," ">>,
    <<"v","i","m"," ">>,
    <<"n","a","n","o"," ">>,
    <<"e","m","a","c","s"," ">>,
    <<"c","o","d","e"," ">>,
    <<"o","p","e","n"," ">>,
    <<"x","d","g","-","o","p","e","n"," ">>,
    <<"e","x","p","o","r","t"," ">>,
    <<"s","o","u","r","c","e"," ">>,
    <<"a","l","i","a","s"," ">>,
    <<".","/">>,
    <<"/">>,
    <<"~">>,
    <<"$">>,
    <<">">>,
    <<">",">">>,
    <<"|">>,
    <<"&","&">>,
    <<";">>
  >>

(***************************************************************************)
(* Classifier                                                              *)
(***************************************************************************)
ExitKeywords ==
  << <<"e","x","i","t">>, <<"q","u","i","t">>, <<"b","y","e">>,
     <<"g","o","o","d","b","y","e">> >>

\* [c.lower() for c in lst]
lower_all(lst) == [i \in 1..Len(lst) |-> lower(lst[i])]

WindowsShellCommandsLower == lower_all(WindowsShellCommands)

WindowsShellStartersLower == lower_all(WindowsShellStarters)

PosixShellCommandsLower == lower_all(PosixShellCommands)

PosixShellStartersLower == lower_all(PosixShellStarters)

\* the bare-command table of the platform, each entry as c.lower()
shell_commands ==
  IF PLATFORM.name = "Windows" THEN WindowsShellCommandsLower ELSE PosixShellCommandsLower

\* a starter table that also lists "find "
shell_starters_with_find ==
  Append(IF PLATFORM.name = "Windows" THEN WindowsShellStartersLower
         ELSE PosixShellStartersLower, <<"f","i","n","d"," ">>)

\* the starter table of the platform, each entry as s.lower()
shell_starters ==
  IF PLATFORM.name = "Windows" THEN WindowsShellStartersLower ELSE PosixShellStartersLower

\* any(text.lower().startswith(s.lower()) for s in shell_starters)
any_starter(t) ==
  LET text_lower == lower(t)
  IN  \E i \in 1..Len(shell_starters) : startswith(text_lower, shell_starters[i])

\* the comparison without text.lower()
is_bare_command_case_sensitive(t) == in_list(t, shell_commands)

\* a prefix match in place of the exact match
is_bare_command_by_prefix(t) ==
  \E i \in 1..Len(shell_commands) : startswith(lower(t), shell_commands[i])

\* text_lower in [c.lower() for c in shell_commands]
is_bare_command(t) == in_list(lower(t), shell_commands)

\* the comparison without text.lower()
is_exit_keyword_case_sensitive(t) == in_list(t, ExitKeywords)

\* text.lower() in ["exit", "quit", "bye", "goodbye"]
is_exit_keyword(t) == in_list(lower(t), ExitKeywords)

\* TRUE: natural language, to be translated; FALSE: literal
is_natural_language(t) ==
  IF startswith(t, <<"!">>) THEN FALSE
  ELSE IF is_exit_keyword(t) THEN FALSE
  ELSE IF is_bare_command(t) THEN FALSE
  ELSE ~any_starter(t)

(***************************************************************************)
(* Bounded Context Buffer                                                  *)
(***************************************************************************)
MAX_HISTORY == 10

MAX_CONTEXT_CHARS == 4000

\* output[:500] in add_to_history
OUTPUT_KEEP == 500

\* output_lines[:2] in format_history
OUTPUT_LINES == 2

\* command_history[-5:] in format_history
SNAPSHOT_ENTRIES == 5

RECURSIVE get_context_size(_)
\* sum(len(e["command"]) + len(e["output"]) for e in command_history)
get_context_size(h) ==
  IF h = <<>> THEN 0
  ELSE Len(h[1].command) + Len(h[1].output) + get_context_size(Tail(h))

history_entry(command, output) ==
  [command |-> command,
   output  |-> IF output # <<>> THEN slice_to(output, OUTPUT_KEEP) ELSE <<>>]

RECURSIVE trim_to_count_from_back(_)
\* the count loop popping the newest entry instead of the oldest
trim_to_count_from_back(h) ==
  IF Len(h) > MAX_HISTORY THEN trim_to_count_from_back(SubSeq(h, 1, Len(h) - 1)) ELSE h

RECURSIVE trim_to_count(_)
\* while len(command_history) > MAX_HISTORY: command_history.pop(0)
trim_to_count(h) ==
  IF Len(h) > MAX_HISTORY THEN trim_to_count(Tail(h)) ELSE h

RECURSIVE trim_to_size_keeping_two(_)
\* the size loop stopping at two entries instead of one
trim_to_size_keeping_two(h) ==
  IF get_context_size(h) > MAX_CONTEXT_CHARS /\ Len(h) > 2
  THEN trim_to_size_keeping_two(Tail(h)) ELSE h

RECURSIVE trim_to_size(_)
\* while get_context_size() > MAX_CONTEXT_CHARS and len(command_history) > 1: pop(0)
trim_to_size(h) ==
  IF get_context_size(h) > MAX_CONTEXT_CHARS /\ Len(h) > 1
  THEN trim_to_size(Tail(h)) ELSE h

\* the buffer after add_to_history(command, output)
history_after(h, command, output) ==
  trim_to_size(trim_to_count(Append(h, history_entry(command, output))))

\* add_to_history without the line commands_run += 1
add_to_history_uncounted(command, output) ==
  /\ commands_run' = commands_run
  /\ command_history' = history_after(command_history, command, output)

add_to_history(command, output) ==
  /\ commands_run' = commands_run + 1
  /\ command_history' = history_after(command_history, command, output)

\* add_to_history(command, output) left by an exception raised inside it:
\* after commands_run += 1 ("count"), after the append ("append"), or after
\* the first while loop ("count_trim")
add_to_history_cut(cut, command, output) ==
  /\ commands_run' = commands_run + 1
  /\ command_history' =
       IF cut = "count" THEN command_history
       ELSE IF cut = "append"
       THEN Append(command_history, history_entry(command, output))
       ELSE trim_to_count(Append(command_history, history_entry(command, output)))

\* the characters str.strip() removes
Whitespace == {" ", "\n", "\t", "\r"}

\* str.strip()
strip(s) ==
  LET keep == {i \in 1..Len(s) : s[i] \notin Whitespace}
  IN  IF keep = {} THEN <<>>
      ELSE SubSeq(s, CHOOSE i \in keep : \A j \in keep : i <= j,
                     CHOOSE i \in keep : \A j \in keep : j <= i)

RECURSIVE split(_, _)
\* str.split(sep) for a one-character sep: the list of pieces, empty ones kept
split(s, sep) ==
  LET at == {i \in 1..Len(s) : s[i] = sep}
  IN  IF at = {} THEN <<s>>
      ELSE LET i == CHOOSE k \in at : \A j \in at : k <= j
           IN  <<SubSeq(s, 1, i - 1)>> \o split(SubSeq(s, i + 1, Len(s)), sep)

RECURSIVE join(_, _)
\* sep.join(lines)
join(sep, lines) ==
  IF lines = <<>> THEN <<>>
  ELSE IF Len(lines) = 1 THEN lines[1]
  ELSE lines[1] \o sep \o join(sep, Tail(lines))

Digits == <<"0","1","2","3","4","5","6","7","8","9">>

RECURSIVE str_of_int(_)
\* str(n) for n >= 0
str_of_int(n) ==
  IF n < 10 THEN <<Digits[n + 1]>> ELSE str_of_int(n \div 10) \o <<Digits[(n % 10) + 1]>>

NO_PREVIOUS == <<"N","o"," ","p","r","e","v","i","o","u","s"," ","c","o","m","m","a","n","d","s",".">>

\* the lines format_history appends for the i-th entry of the slice
entry_lines(i, entry) ==
  <<str_of_int(i) \o <<"."," ","$"," ">> \o entry.command>>
    \o (IF entry.output # <<>>
        THEN LET output_lines == split(strip(entry.output), "\n")
                 shown == SubSeq(output_lines, 1,
                            IF Len(output_lines) < OUTPUT_LINES
                            THEN Len(output_lines) ELSE OUTPUT_LINES)
             IN  [k \in 1..Len(shown) |-> <<" "," "," ">> \o shown[k]]
        ELSE <<>>)

\* the slice taken one entry too long
last_entries_one_more(h) ==
  IF Len(h) > SNAPSHOT_ENTRIES + 1
  THEN SubSeq(h, Len(h) - SNAPSHOT_ENTRIES, Len(h)) ELSE h

\* command_history[-5:]
last_entries(h) ==
  IF Len(h) > SNAPSHOT_ENTRIES THEN SubSeq(h, Len(h) - SNAPSHOT_ENTRIES + 1, Len(h)) ELSE h

RECURSIVE all_lines(_, _)
all_lines(i, entries) ==
  IF entries = <<>> THEN <<>>
  ELSE entry_lines(i, entries[1]) \o all_lines(i + 1, Tail(entries))

format_history(h) ==
  IF h = <<>> THEN NO_PREVIOUS
  ELSE join(<<"\n">>, all_lines(1, last_entries(h)))

(***************************************************************************)
(* Environment of the session loop                                         *)
(***************************************************************************)
\* Path.home()
home == IF PLATFORM.name = "Windows" THEN <<"C",":","\\","U","s","e","r","s","\\","u">>
        ELSE <<"/","h","o","m","e","/","u">>

\* the directories os.chdir accepts
existing_dirs == IF PLATFORM.name = "Windows" THEN {home, <<"\\","t","m","p">>}
                 ELSE {home, <<"/","t","m","p">>}

\* os.path.expanduser, for the current user's "~"
expanduser(path) ==
  IF ~startswith(path, <<"~">>) THEN path
  ELSE IF Len(path) = 1 \/ path[2] = "/" \/ (PLATFORM.name = "Windows" /\ path[2] = "\\")
       THEN home \o slice_from(path, 1)
       ELSE path

\* str.replace(a, b) for one-character a and b
replace_char(s, a, b) == [i \in 1..Len(s) |-> IF s[i] = a THEN b ELSE s[i]]

\* str.strip(chars)
strip_chars(s, chars) ==
  LET keep == {i \in 1..Len(s) : s[i] \notin chars}
  IN  IF keep = {} THEN <<>>
      ELSE SubSeq(s, CHOOSE i \in keep : \A j \in keep : i <= j,
                     CHOOSE i \in keep : \A j \in keep : j <= i)

(***************************************************************************)
(* Translation adapters                                                    *)
(***************************************************************************)
max_retries == 3

RATE_LIMIT_MESSAGE ==
  <<"R","a","t","e"," ","l","i","m","i","t"," ","-"," ","p","l","e","a","s","e",
    " ","w","a","i","t"," ","a"," ","m","o","m","e","n","t">>

api_error(code, body) ==
  <<"A","P","I"," ","e","r","r","o","r"," ">> \o str_of_int(code) \o <<":"," ">>
    \o slice_to(body, 100)

network_error(reason) ==
  <<"N","e","t","w","o","r","k"," ","e","r","r","o","r",":"," ">> \o reason

\* str(KeyError(key)), for the key a well-formed answer must hold
key_error(key) == <<"'">> \o key \o <<"'">>

\* call_groq waiting the same time before every retry
call_groq_fixed_wait(resp, n) ==
  IF resp.kind = "ok" THEN [kind |-> "return", value |-> strip(resp.content)]
  ELSE IF resp.kind = "malformed"
  THEN [kind |-> "raise", err |-> key_error(<<"c","h","o","i","c","e","s">>)]
  ELSE IF resp.kind = "http" THEN
    IF resp.code = 429 THEN
      IF n < max_retries - 1
      THEN [kind |-> "retry", wait_time |-> 2]
      ELSE [kind |-> "raise", err |-> RATE_LIMIT_MESSAGE]
    ELSE [kind |-> "raise", err |-> api_error(resp.code, resp.body)]
  ELSE [kind |-> "raise", err |-> network_error(resp.reason)]

\* call_groq trying again after every HTTP error
call_groq_retrying_errors(resp, n) ==
  IF resp.kind = "ok" THEN [kind |-> "return", value |-> strip(resp.content)]
  ELSE IF resp.kind = "malformed"
  THEN [kind |-> "raise", err |-> key_error(<<"c","h","o","i","c","e","s">>)]
  ELSE IF resp.kind = "http" THEN
    IF n < max_retries - 1
    THEN [kind |-> "retry", wait_time |-> (n + 1) * 2]
    ELSE IF resp.code = 429 THEN [kind |-> "raise", err |-> RATE_LIMIT_MESSAGE]
    ELSE [kind |-> "raise", err |-> api_error(resp.code, resp.body)]
  ELSE [kind |-> "raise", err |-> network_error(resp.reason)]

\* one pass of the retry loop of call_groq on the answer resp of urlopen:
\* the text returned, a wait before the next pass, or the exception raised
call_groq(resp, n) ==
  IF resp.kind = "ok" THEN [kind |-> "return", value |-> strip(resp.content)]
  ELSE IF resp.kind = "malformed"
  THEN [kind |-> "raise", err |-> key_error(<<"c","h","o","i","c","e","s">>)]
  ELSE IF resp.kind = "http" THEN
    IF resp.code = 429 THEN
      IF n < max_retries - 1
      THEN [kind |-> "retry", wait_time |-> (n + 1) * 2]
      ELSE [kind |-> "raise", err |-> RATE_LIMIT_MESSAGE]
    ELSE [kind |-> "raise", err |-> api_error(resp.code, resp.body)]
  ELSE [kind |-> "raise", err |-> network_error(resp.reason)]

\* the same pass of call_gemini
call_gemini(resp, n) ==
  IF resp.kind = "ok" THEN [kind |-> "return", value |-> strip(resp.content)]
  ELSE IF resp.kind = "malformed"
  THEN [kind |-> "raise", err |-> key_error(<<"c","a","n","d","i","d","a","t","e","s">>)]
  ELSE IF resp.kind = "http" THEN
    IF resp.code = 429 THEN
      IF n < max_retries - 1
      THEN [kind |-> "retry", wait_time |-> (n + 1) * 2]
      ELSE [kind |-> "raise", err |-> RATE_LIMIT_MESSAGE]
    ELSE [kind |-> "raise", err |-> api_error(resp.code, resp.body)]
  ELSE [kind |-> "raise", err |-> network_error(resp.reason)]

NO_GEMINI_KEY ==
  <<"N","o"," ","G","e","m","i","n","i"," ","A","P","I"," ","k","e","y"," ","-",
    " ","r","u","n"," ","!","a","u","t","h">>

NO_GROQ_KEY ==
  <<"N","o"," ","G","r","o","q"," ","A","P","I"," ","k","e","y"," ","-",
    " ","r","u","n"," ","!","a","u","t","h">>

\* get_ai_response up to its call of the adapter: <<>>, or <<err>> for the
\* exception raised when the provider's key is not set
missing_key ==
  IF provider = "gemini"
  THEN (IF "gemini" \notin api_keys THEN <<NO_GEMINI_KEY>> ELSE <<>>)
  ELSE (IF "groq" \notin api_keys THEN <<NO_GROQ_KEY>> ELSE <<>>)

(***************************************************************************)
(* Executor                                                                *)
(***************************************************************************)
\* communicate(timeout=60)
TIMEOUT == 60

TIMED_OUT == <<"C","o","m","m","a","n","d"," ","t","i","m","e","d"," ","o","u","t">>

\* whether run_command returns at all for a child that behaves as b
run_command_returns(b) ==
  PLATFORM.name = "Windows" \/ b.kind # "never"

\* what run_command returns for a child that behaves as b, and whether it
\* killed the child
run_command(b) ==
  IF b.kind = "raises" THEN [stdout |-> <<>>, stderr |-> b.message, killed |-> FALSE]
  ELSE IF PLATFORM.name = "Windows"
  THEN IF b.kind = "never" \/ b.duration > TIMEOUT
       THEN [stdout |-> <<>>, stderr |-> TIMED_OUT, killed |-> TRUE]
       ELSE [stdout |-> b.stdout, stderr |-> b.stderr, killed |-> FALSE]
  ELSE [stdout |-> b.stdout, stderr |-> b.stderr, killed |-> FALSE]

(***************************************************************************)
(* Session loop of main()                                                  *)
(***************************************************************************)
\* commands recorded per behaviour
MaxCommands == 1

CD_SPACE == <<"c","d"," ">>

CD == <<"c","d">>

SET_LOCATION_SPACE == <<"s","e","t","-","l","o","c","a","t","i","o","n"," ">>

CHDIR_SPACE == <<"c","h","d","i","r"," ">>

BANG_AUTH == <<"!","a","u","t","h">>

BANG_VERSION == <<"!","v","e","r","s","i","o","n">>

BANG_UNINSTALL == <<"!","u","n","i","n","s","t","a","l","l">>

BANG_HELP == <<"!","h","e","l","p">>

BANG_CREDITS == <<"!","c","r","e","d","i","t","s">>

\* the exit test without lower()
is_exit_command_case_sensitive(u) ==
  in_list(u, << <<"e","x","i","t">>, <<"q","u","i","t">>, <<"b","y","e">>,
                <<"g","o","o","d","b","y","e">> >>)

\* user_input.lower() in ["exit", "quit", "bye", "goodbye"], in main
is_exit_command(u) ==
  in_list(lower(u), << <<"e","x","i","t">>, <<"q","u","i","t">>, <<"b","y","e">>,
                       <<"g","o","o","d","b","y","e">> >>)

\* the loop body asking the classifier about what follows the "!"
dispatch_classifying_bang(u) ==
  IF u = <<>> THEN "empty"
  ELSE IF is_exit_command(u) THEN "exit"
  ELSE IF startswith(u, CD_SPACE) THEN "cd_path"
  ELSE IF u = CD THEN "cd_home"
  ELSE IF u = BANG_AUTH THEN "auth"
  ELSE IF u = BANG_VERSION THEN "version"
  ELSE IF u = BANG_UNINSTALL THEN "uninstall"
  ELSE IF u = BANG_HELP THEN "help"
  ELSE IF u = BANG_CREDITS THEN "credits"
  ELSE IF startswith(u, <<"!">>) /\ ~is_natural_language(slice_from(u, 1)) THEN "bang"
  ELSE IF startswith(u, <<"!">>) THEN "translate"
  ELSE IF ~is_natural_language(u) THEN "literal"
  ELSE "translate"

\* the branch of the loop body that takes the stripped line u
dispatch(u) ==
  IF u = <<>> THEN "empty"
  ELSE IF is_exit_command(u) THEN "exit"
  ELSE IF startswith(u, CD_SPACE) THEN "cd_path"
  ELSE IF u = CD THEN "cd_home"
  ELSE IF u = BANG_AUTH THEN "auth"
  ELSE IF u = BANG_VERSION THEN "version"
  ELSE IF u = BANG_UNINSTALL THEN "uninstall"
  ELSE IF u = BANG_HELP THEN "help"
  ELSE IF u = BANG_CREDITS THEN "credits"
  ELSE IF startswith(u, <<"!">>) THEN "bang"
  ELSE IF ~is_natural_language(u) THEN "literal"
  ELSE "translate"

\* the except clauses of the loop for an Exception whose text is err
handle_exception(err) ==
  IF contains(err, <<"4","2","9">>) \/ contains(lower(err), <<"q","u","o","t","a">>)
       \/ contains(lower(err), <<"r","a","t","e">>)
  THEN <<[ev |-> "print", what |-> "rate_limit"],
         [ev |-> "sleep", secs |-> 5, by |-> "loop"]>>
  ELSE IF contains(err, <<"A","P","I","_","K","E","Y">>)
            \/ contains(err, <<"a","p","i","_","k","e","y">>)
            \/ contains(lower(err), <<"a","u","t","h","e","n","t","i","c","a","t","i","o","n">>)
  THEN <<[ev |-> "print", what |-> "auth_error"]>>
  ELSE IF ~contains(err, <<"I","n","t","e","r","r","u","p","t","e","d","E","r","r","o","r">>)
            /\ ~contains(err, <<"K","e","y","b","o","a","r","d","I","n","t","e","r","r","u","p","t">>)
  THEN <<[ev |-> "print", what |-> "error"]>>
  ELSE <<>>

\* where the loop is after the except clause: in time.sleep(5), or at the
\* end of the pass
pc_after_exception(err) ==
  IF \E i \in 1..Len(handle_exception(err)) : handle_exception(err)[i].ev = "sleep"
  THEN "Sleeping" ELSE "Idle"

\* an Exception whose text is err reaches the except clauses of the loop
raise_to_loop(err, ev) ==
  /\ events' = ev \o <<[ev |-> "raise", err |-> err]>> \o handle_exception(err)
  /\ pc' = pc_after_exception(err)

\* show_goodbye()
show_goodbye == <<[ev |-> "goodbye", commands |-> commands_run]>>

RECURSIVE repr_path(_)
\* the inside of repr(path): every backslash is written twice
repr_path(path) ==
  IF path = <<>> THEN <<>>
  ELSE (IF path[1] = "\\" THEN <<"\\","\\">> ELSE <<path[1]>>) \o repr_path(Tail(path))

\* str(e) for the OSError of a failed os.chdir(path)
chdir_error(path) ==
  IF PLATFORM.name = "Windows"
  THEN <<"[","W","i","n","E","r","r","o","r"," ","3","]"," ","T","h","e"," ","s","y","s","t","e","m",
         " ","c","a","n","n","o","t"," ","f","i","n","d"," ","t","h","e"," ","p","a","t","h",
         " ","s","p","e","c","i","f","i","e","d",":"," ","'">> \o repr_path(path) \o <<"'">>
  ELSE <<"[","E","r","r","n","o"," ","2","]"," ","N","o"," ","s","u","c","h"," ","f","i","l","e",
         " ","o","r"," ","d","i","r","e","c","t","o","r","y",":"," ","'">> \o repr_path(path) \o <<"'">>

\* the loop body without the line that shows the command
show_command_skipped(command) == <<>>

\* print(f"-> {command}")
show_command(command) == <<[ev |-> "display", cmd |-> command]>>

\* cd_path of a translated command; <<>> is None as well as ""
cd_path_of(command) ==
  IF startswith(lower(command), CD_SPACE) THEN strip(slice_from(command, 3))
  ELSE IF startswith(lower(command), SET_LOCATION_SPACE) THEN strip(slice_from(command, 13))
  ELSE IF startswith(lower(command), CHDIR_SPACE) THEN strip(slice_from(command, 6))
  ELSE <<>>

\* the path a typed "cd <path>" changes to
typed_cd_target(u) ==
  LET path == expanduser(strip(slice_from(u, 3)))
  IN  IF PLATFORM.name = "Windows" THEN replace_char(path, "/", "\\") ELSE path

\* the path a translated directory change with the non-empty cd_path changes
\* to; the paths of Responses hold neither "$" nor "%", so the substitution of
\* "$env:" and os.path.expandvars find nothing to replace
translated_cd_target(cd_path) ==
  LET path == expanduser(strip_chars(strip_chars(cd_path, {"\""}), {"'"}))
  IN  IF PLATFORM.name = "Windows" THEN replace_char(path, "/", "\\") ELSE path

\* os.chdir taken to change the directory whatever the path
try_chdir_unchecked(path, command, origin, ev) ==
  /\ cwd' = path
  /\ events' = ev \o <<[ev |-> "chdir", cmd |-> command, origin |-> origin,
                        path |-> path, ok |-> path \in existing_dirs]>>
                  \o (IF path \in existing_dirs THEN <<>>
                      ELSE <<[ev |-> "print", what |-> "cd_error"]>>)
  /\ pc' = "Idle"
  /\ UNCHANGED <<child, attempt, command_history, commands_run>>

\* try: os.chdir(path) except Exception as e: print(f"cd: {e}")
try_chdir(path, command, origin, ev) ==
  /\ cwd' = IF path \in existing_dirs THEN path ELSE cwd
  /\ events' = ev \o <<[ev |-> "chdir", cmd |-> command, origin |-> origin,
                        path |-> path, ok |-> path \in existing_dirs]>>
                  \o (IF path \in existing_dirs THEN <<>>
                      ELSE <<[ev |-> "print", what |-> "cd_error"]>>)
  /\ pc' = "Idle"
  /\ UNCHANGED <<child, attempt, command_history, commands_run>>

\* the behaviours of a child process: how long it runs, what it writes and
\* its exit status; or it never ends; or starting it raises
ChildBehaviours ==
  { [kind |-> "exit", duration |-> 1, code |-> 0, stdout |-> <<"a","\n">>, stderr |-> <<>>],
    [kind |-> "exit", duration |-> 1, code |-> 1, stdout |-> <<>>, stderr |-> <<"e","\n">>],
    [kind |-> "exit", duration |-> TIMEOUT + 1, code |-> 0, stdout |-> <<"a","\n">>, stderr |-> <<>>],
    [kind |-> "never"],
    [kind |-> "raises", message |-> <<"b","o","o","m">>] }

\* how the child failed, if it did
failure_of(b) ==
  IF b.kind = "raises" THEN "start"
  ELSE IF b.kind = "never" THEN "timeout"
  ELSE IF b.duration > TIMEOUT THEN "timeout"
  ELSE IF b.code # 0 THEN "nonzero"
  ELSE "none"

NoChild == [kind |-> "none"]

\* the command recorded when run_command is called, not when it returned
start_run_command_recording(command, origin, ev) ==
  /\ \E b \in ChildBehaviours :
       child' = [kind |-> "running", cmd |-> command, origin |-> origin, behaviour |-> b]
  /\ events' = ev \o <<[ev |-> "run_command", cmd |-> command, origin |-> origin]>>
  /\ pc' = "Running"
  /\ add_to_history(command, <<>>)
  /\ UNCHANGED <<cwd, attempt>>

\* the call of run_command(command) is entered: the child is started
start_run_command(command, origin, ev) ==
  /\ \E b \in ChildBehaviours :
       child' = [kind |-> "running", cmd |-> command, origin |-> origin, behaviour |-> b]
  /\ events' = ev \o <<[ev |-> "run_command", cmd |-> command, origin |-> origin]>>
  /\ pc' = "Running"
  /\ UNCHANGED <<cwd, attempt, command_history, commands_run>>

\* the loop body after get_command returned command
run_translated(command, ev) ==
  LET cd_path == cd_path_of(command)
      shown == ev \o show_command(command)
  IN  IF cd_path # <<>>
      THEN try_chdir(translated_cd_target(cd_path), command, "translated", shown)
      ELSE start_run_command(command, "translated", shown)

\* the lines the user types
RawLines ==
  { <<>>, <<" "," "," ">>,
    <<"e","x","i","t">>, <<"B","y","e">>, <<" ","Q","u","i","T"," ">>,
    <<"c","d"," ","/","t","m","p">>, <<"c","d"," ","/","n","o","p","e">>, <<"c","d"," ","~">>,
    <<"c","d">>,
    <<"C","D"," ","/","t","m","p">>,
    <<"!","c","d"," ","/","t","m","p">>,
    <<"S","e","t","-","L","o","c","a","t","i","o","n"," ","/","t","m","p">>,
    BANG_AUTH, BANG_VERSION, BANG_UNINSTALL, BANG_HELP, BANG_CREDITS,
    <<"!">>, <<"!","l","s">>, <<"!","h","i">>, <<" ","l","s"," ">>,
    <<"s","h","o","w"," ","f","i","l","e","s">> }

\* the grave accent U+0060, a character that a string of this notation cannot
\* hold; it is no whitespace and no letter
GRAVE == "U+0060"

\* the fence of a markdown code block
FENCE == <<GRAVE, GRAVE, GRAVE>>

\* the answers of urlopen
Responses ==
  { [kind |-> "ok", content |-> <<" ","l","s"," ","-","l","a","\n">>],
    [kind |-> "ok", content |-> <<"c","d"," ","/","t","m","p">>],
    [kind |-> "ok", content |-> <<"c","d"," ","/","n","o","p","e">>],
    [kind |-> "ok", content |-> <<"S","e","t","-","L","o","c","a","t","i","o","n"," ","\"","/","t","m","p","\"">>],
    [kind |-> "ok", content |-> <<"c","d">>],
    [kind |-> "ok", content |-> <<>>],
    [kind |-> "ok", content |-> FENCE \o <<"b","a","s","h","\n","l","s","\n">> \o FENCE],
    [kind |-> "malformed"],
    [kind |-> "http", code |-> 429, body |-> <<>>],
    [kind |-> "http", code |-> 500, body |-> <<"o","o","p","s">>],
    [kind |-> "urlerror", reason |-> <<"t","i","m","e","d"," ","o","u","t">>] }

bufvars == <<command_history, commands_run>>

idlevars == <<PLATFORM, text, result, snapshot>>

loopvars == <<pc, cwd, provider, api_keys, attempt, child, events>>

\* the session loop at rest, for the harnesses that do not run it
LoopIdle ==
  /\ pc = "Idle" /\ cwd = home /\ provider = "groq" /\ api_keys = {"groq"}
  /\ attempt = 0 /\ child = NoChild /\ events = <<>>

Init ==
  /\ \E system \in {"Windows", "Linux"} : PLATFORM = get_platform_info(system)
  /\ text = <<>> /\ result = <<>> /\ snapshot = <<>>
  /\ command_history = <<>>
  /\ commands_run = 0
  /\ pc = "Idle"
  /\ cwd = home
  /\ provider = "groq"
  /\ api_keys \in {{}, {"groq"}}
  /\ attempt = 0
  /\ child = NoChild
  /\ events = <<>>

\* input(prompt) is over; the event notes the buffer, the counter and the
\* working directory the pass starts with
input_returned ==
  [ev |-> "input", prompt |-> "main",
   before |-> [command_history |-> command_history, commands_run |-> commands_run,
               cwd |-> cwd]]

\* input(prompt) returned the line raw
line_read(raw) == input_returned @@ [line |-> raw]

\* a prompt inside a builtin does not return a line: the stream is closed, or
\* the user interrupts. EOFError, and KeyboardInterrupt (Windows, where no
\* SIGINT handler is installed) end the session through show_goodbye; the
\* InterruptedError of exit_handler makes the loop continue
prompt_aborted(prompt, ev) ==
  \E how \in {"eof", "interrupt"} :
    LET seen == ev \o <<[ev |-> how, during |-> prompt]>>
    IN  IF how = "eof" \/ PLATFORM.name = "Windows"
        THEN events' = seen \o show_goodbye /\ pc' = "Ended"
        ELSE events' = seen /\ pc' = "Idle"

\* while True: the next pass begins and blocks in input()
BeginPass ==
  /\ pc = "Idle"
  /\ commands_run < MaxCommands
  /\ pc' = "ReadInput"
  /\ events' = <<>>
  /\ UNCHANGED <<cwd, provider, api_keys, attempt, child, bufvars>>
  /\ UNCHANGED idlevars

\* one pass of the loop body, from the return of input() to the first
\* blocking call, or to the end of the pass
ReadLine ==
  /\ pc = "ReadInput"
  /\ \E raw \in RawLines :
       LET u == strip(raw)
           d == dispatch(u)
           ev == <<line_read(raw)>>
       IN  \/ /\ d = "empty"
              /\ events' = ev
              /\ pc' = "Idle"
              /\ UNCHANGED <<cwd, provider, api_keys, attempt, child, bufvars>>
           \/ /\ d = "exit"
              /\ events' = ev \o show_goodbye
              /\ pc' = "Ended"
              /\ UNCHANGED <<cwd, provider, api_keys, attempt, child, bufvars>>
           \/ /\ d = "cd_path"
              /\ try_chdir(typed_cd_target(u), u, "typed", ev)
              /\ UNCHANGED <<provider, api_keys>>
           \/ /\ d = "cd_home"
              /\ \E home_there \in BOOLEAN :
                   LET tried == ev \o <<[ev |-> "chdir", cmd |-> u, origin |-> "typed",
                                         path |-> home, ok |-> home_there]>>
                   IN  IF home_there
                       THEN cwd' = home /\ events' = tried /\ pc' = "Idle"
                       ELSE cwd' = cwd /\ raise_to_loop(chdir_error(home), tried)
              /\ UNCHANGED <<provider, api_keys, attempt, child, bufvars>>
           \/ /\ d = "auth"
              /\ \/ \E choice \in {"1", "2"}, api_key \in {<<>>, <<"k">>} :
                      LET chosen == IF choice = "2" THEN "gemini" ELSE "groq"
                      IN  /\ provider' = IF api_key = <<>> THEN provider ELSE chosen
                          /\ api_keys' = IF api_key = <<>> THEN api_keys
                                         ELSE api_keys \cup {chosen}
                          /\ events' = ev \o <<[ev |-> "input", prompt |-> "auth"]>>
                          /\ pc' = "Idle"
                 \/ /\ prompt_aborted("auth", ev)
                    /\ UNCHANGED <<provider, api_keys>>
              /\ UNCHANGED <<cwd, attempt, child, bufvars>>
           \/ /\ d \in {"version", "help", "credits"}
              /\ events' = ev \o <<[ev |-> "print", what |-> d]>>
              /\ pc' = "Idle"
              /\ UNCHANGED <<cwd, provider, api_keys, attempt, child, bufvars>>
           \/ /\ d = "uninstall"
              /\ \/ \E confirm \in {<<"Y">>, <<"n">>, <<>>} :
                      /\ events' = ev \o <<[ev |-> "input", prompt |-> "uninstall"]>>
                                      \o (IF lower(confirm) = <<"y">>
                                          THEN <<[ev |-> "print", what |-> "uninstalled"],
                                                 [ev |-> "sys_exit", status |-> 0]>>
                                          ELSE <<>>)
                      /\ pc' = IF lower(confirm) = <<"y">> THEN "Exited" ELSE "Idle"
                 \/ prompt_aborted("uninstall", ev)
              /\ UNCHANGED <<cwd, provider, api_keys, attempt, child, bufvars>>
           \/ /\ d = "bang"
              /\ IF slice_from(u, 1) = <<>>
                 THEN events' = ev /\ pc' = "Idle" /\ UNCHANGED <<cwd, attempt, child, bufvars>>
                 ELSE start_run_command(slice_from(u, 1), "bang", ev)
              /\ UNCHANGED <<provider, api_keys>>
           \/ /\ d = "literal"
              /\ start_run_command(u, "literal", ev)
              /\ UNCHANGED <<provider, api_keys>>
           \/ /\ d = "translate"
              /\ IF missing_key # <<>>
                 THEN /\ raise_to_loop(missing_key[1], ev)
                      /\ UNCHANGED attempt
                 ELSE /\ events' = ev
                      /\ pc' = "Translating"
                      /\ attempt' = 0
              /\ UNCHANGED <<cwd, provider, api_keys, child, bufvars>>
  /\ UNCHANGED idlevars

\* input() raises EOFError
ReadEOF ==
  /\ pc = "ReadInput"
  /\ events' = <<input_returned, [ev |-> "eof", during |-> "input"]>> \o show_goodbye
  /\ pc' = "Ended"
  /\ UNCHANGED <<cwd, provider, api_keys, attempt, child, bufvars>>
  /\ UNCHANGED idlevars

\* urlopen answers: one pass of the adapter's retry loop, and on its return
\* the rest of the loop body up to run_command
TranslateAttempt ==
  /\ pc = "Translating"
  /\ \E resp \in Responses :
       LET out == IF provider = "gemini" THEN call_gemini(resp, attempt)
                  ELSE call_groq(resp, attempt)
           ev == events \o <<[ev |-> "urlopen",
                              code |-> IF resp.kind = "http" THEN resp.code
                                       ELSE IF resp.kind = "urlerror" THEN 0 ELSE 200]>>
       IN  \/ /\ out.kind = "retry"
              /\ events' = ev \o <<[ev |-> "sleep", secs |-> out.wait_time, by |-> "adapter"]>>
              /\ attempt' = attempt + 1
              /\ UNCHANGED <<pc, cwd, child, bufvars>>
           \/ /\ out.kind = "raise"
              /\ raise_to_loop(out.err, ev)
              /\ UNCHANGED <<cwd, attempt, child, bufvars>>
           \/ /\ out.kind = "return"
              /\ run_translated(out.value, ev)
  /\ UNCHANGED <<provider, api_keys>>
  /\ UNCHANGED idlevars

\* run_command returns: the streams are printed and the command is recorded
RunCommandReturns ==
  /\ pc = "Running"
  /\ run_command_returns(child.behaviour)
  /\ LET r == run_command(child.behaviour)
     IN  /\ events' = events
                \o <<[ev |-> "returned", stdout |-> r.stdout, stderr |-> r.stderr,
                      killed |-> r.killed,
                      failure |-> failure_of(child.behaviour),
                      overdue |-> (child.behaviour.kind = "never"
                                   \/ (child.behaviour.kind = "exit"
                                       /\ child.behaviour.duration > TIMEOUT))],
                     [ev |-> "print", what |-> "streams"],
                     [ev |-> "add_to_history", cmd |-> child.cmd]>>
         /\ add_to_history(child.cmd, r.stdout \o r.stderr)
  /\ child' = NoChild
  /\ pc' = "Idle"
  /\ UNCHANGED <<cwd, provider, api_keys, attempt>>
  /\ UNCHANGED idlevars

\* time.sleep(5) in the except clause returns; the pass is over
SleepReturns ==
  /\ pc = "Sleeping"
  /\ pc' = "Idle"
  /\ UNCHANGED <<cwd, provider, api_keys, attempt, child, events, bufvars>>
  /\ UNCHANGED idlevars

\* the user presses Ctrl+C while input() of the main prompt is blocked.
\* Windows: KeyboardInterrupt, caught with EOFError. Elsewhere exit_handler
\* raises InterruptedError, for which the loop continues
InterruptInput ==
  /\ pc = "ReadInput"
  /\ LET seen == <<input_returned, [ev |-> "interrupt", during |-> "input"]>>
     IN  IF PLATFORM.name = "Windows"
         THEN events' = seen \o show_goodbye /\ pc' = "Ended"
         ELSE events' = seen /\ pc' = "Idle"
  /\ UNCHANGED <<cwd, provider, api_keys, attempt, child, bufvars>>
  /\ UNCHANGED idlevars

\* Ctrl+C while the adapter is in urlopen or in its time.sleep. Windows:
\* KeyboardInterrupt passes the adapter's except clauses and ends the
\* session. Elsewhere the InterruptedError either reaches the loop as it is
\* (continue), or, being an OSError, is wrapped by urlopen into a URLError
\* and reaches the loop as the adapter's "Network error: " exception
InterruptTranslation ==
  /\ pc = "Translating"
  /\ LET seen == events \o <<[ev |-> "interrupt", during |-> "translation"]>>
     IN  IF PLATFORM.name = "Windows"
         THEN events' = seen \o show_goodbye /\ pc' = "Ended"
         ELSE \/ events' = seen /\ pc' = "Idle"
              \/ raise_to_loop(network_error(<<>>), seen)
  /\ UNCHANGED <<cwd, provider, api_keys, attempt, child, bufvars>>
  /\ UNCHANGED idlevars

\* a child that the terminal's SIGINT has ended
ENDED_BY_SIGINT ==
  [kind |-> "exit", duration |-> 1, code |-> 130, stdout |-> <<>>, stderr |-> <<>>]

\* Ctrl+C while run_command waits for the child. Windows: KeyboardInterrupt
\* is no Exception, so it leaves run_command, the child is left alone and the
\* session ends. Elsewhere the InterruptedError of exit_handler is raised
\* in the poll of communicate, where the selectors module catches it:
\* run_command goes on waiting, for the same child or for one that the signal
\* has ended. Only when the signal arrives outside the poll does
\* subprocess.run kill the child and re-raise; run_command's "except
\* Exception" then returns ("", str(e)) and the loop prints and records the
\* command
InterruptChild ==
  /\ pc = "Running"
  /\ \A i \in 1..Len(events) : events[i].ev # "interrupt"
  /\ LET seen == events \o <<[ev |-> "interrupt", during |-> "run_command"]>>
     IN  IF PLATFORM.name = "Windows"
         THEN /\ events' = seen \o show_goodbye
              /\ pc' = "Ended"
              /\ child' = [child EXCEPT !.kind = "abandoned"]
              /\ UNCHANGED bufvars
         ELSE \/ /\ events' = seen
                 /\ \E b \in {child.behaviour, ENDED_BY_SIGINT} :
                      child' = [child EXCEPT !.behaviour = b]
                 /\ UNCHANGED <<pc, bufvars>>
              \/ /\ events' = seen
                      \o <<[ev |-> "returned", stdout |-> <<>>, stderr |-> <<>>,
                             killed |-> TRUE, failure |-> "interrupted", overdue |-> FALSE],
                           [ev |-> "print", what |-> "streams"],
                           [ev |-> "add_to_history", cmd |-> child.cmd]>>
                 /\ add_to_history(child.cmd, <<>>)
                 /\ child' = NoChild
                 /\ pc' = "Idle"
  /\ UNCHANGED <<cwd, provider, api_keys, attempt>>
  /\ UNCHANGED idlevars

\* Ctrl+C during time.sleep(5) of the except clause: the exception is raised
\* inside the handler, no clause of the same try catches it, and it leaves
\* main()
InterruptSleep ==
  /\ pc = "Sleeping"
  /\ events' = events \o <<[ev |-> "interrupt", during |-> "handler"],
                            [ev |-> "traceback"]>>
  /\ pc' = "Crashed"
  /\ UNCHANGED <<cwd, provider, api_keys, attempt, child, bufvars>>
  /\ UNCHANGED idlevars

\* Ctrl+C after run_command returned, while the loop prints the streams or
\* is inside add_to_history. The exception is raised between two bytecodes:
\* before the call ("print"), or at one of the cuts of add_to_history_cut.
\* Windows: KeyboardInterrupt ends the session. Elsewhere the
\* InterruptedError makes the loop continue with what was done so far
InterruptAddToHistory ==
  /\ pc = "Running"
  /\ run_command_returns(child.behaviour)
  /\ \E cut \in {"print", "count", "append", "count_trim"} :
       LET r == run_command(child.behaviour)
           seen == events
                \o <<[ev |-> "returned", stdout |-> r.stdout, stderr |-> r.stderr,
                      killed |-> r.killed,
                      failure |-> failure_of(child.behaviour),
                      overdue |-> (child.behaviour.kind = "never"
                                   \/ (child.behaviour.kind = "exit"
                                       /\ child.behaviour.duration > TIMEOUT))]>>
                \o (IF cut = "print" THEN <<>> ELSE <<[ev |-> "print", what |-> "streams"]>>)
                \o <<[ev |-> "interrupt",
                      during |-> IF cut = "print" THEN "print" ELSE "add_to_history",
                      cut |-> cut]>>
       IN  /\ IF cut = "print" THEN UNCHANGED bufvars
              ELSE add_to_history_cut(cut, child.cmd, r.stdout \o r.stderr)
           /\ IF PLATFORM.name = "Windows"
              THEN /\ events' = seen \o <<[ev |-> "goodbye", commands |-> commands_run']>>
                   /\ pc' = "Ended"
              ELSE /\ events' = seen
                   /\ pc' = "Idle"
  /\ child' = NoChild
  /\ UNCHANGED <<cwd, provider, api_keys, attempt>>
  /\ UNCHANGED idlevars

Interrupt ==
  \/ InterruptInput \/ InterruptTranslation \/ InterruptChild \/ InterruptSleep
  \/ InterruptAddToHistory

Next ==
  \/ BeginPass \/ ReadLine \/ ReadEOF \/ TranslateAttempt \/ RunCommandReturns
  \/ SleepReturns \/ Interrupt

Spec == Init /\ [][Next]_vars

(***************************************************************************)
(* Classifier harness: is_natural_language applied to one text             *)
(***************************************************************************)
\* letter-case patterns repeat with this period
MaskBits == 3

Masks == 0..(2^MaskBits - 1)

seq_set(lst) == {lst[i] : i \in 1..Len(lst)}

\* s with the letters at the positions the mask selects in upper case, the others in lower case
apply_mask(s, m) ==
  [i \in 1..Len(s) |->
     IF (m \div (2^((i - 1) % MaskBits))) % 2 = 1
     THEN (IF s[i] \in LowerSet THEN ToUpper[s[i]] ELSE s[i])
     ELSE (IF s[i] \in UpperSet THEN ToLower[s[i]] ELSE s[i])]

TableEntries ==
  seq_set(WindowsShellCommands) \cup seq_set(WindowsShellStarters)
    \cup seq_set(PosixShellCommands) \cup seq_set(PosixShellStarters)
    \cup seq_set(ExitKeywords)

FreeTexts ==
  { <<>>,
    <<"!">>,
    <<"!","l","s">>,
    <<"f","i","n","d"," ","m","y"," ","l","o","s","t"," ","f","i","l","e","s">>,
    <<"f","i","n","d"," ","/","t","m","p">>,
    <<"s","h","o","w"," ","m","e"," ","l","a","r","g","e"," ","f","i","l","e","s">>,
    <<"l","i","s","t"," ","f","i","l","e","s">>,
    <<"w","h","a","t"," ","i","s"," ","m","y"," ","i","p">> }

ClassifierTexts ==
  {apply_mask(e, m) : e \in TableEntries \cup FreeTexts, m \in Masks}
    \cup TableEntries
    \cup {e \o <<"x">> : e \in TableEntries}
    \cup {e \o <<" ","a">> : e \in TableEntries}

BufferIdle == command_history = <<>> /\ commands_run = 0 /\ snapshot = <<>>

InitClassify ==
  /\ \E system \in Systems : PLATFORM = get_platform_info(system)
  /\ text \in ClassifierTexts
  /\ result = <<>>
  /\ BufferIdle
  /\ LoopIdle

Classify ==
  /\ result = <<>>
  /\ result' = <<is_natural_language(text)>>
  /\ UNCHANGED <<PLATFORM, text, command_history, commands_run, snapshot>>
  /\ UNCHANGED loopvars

NextClassify == Classify

SpecClassify == InitClassify /\ [][NextClassify]_vars

(***************************************************************************)
(* Claims about the classifier                                             *)
(***************************************************************************)
same_ignoring_case(a, b) ==
  /\ Len(a) = Len(b)
  /\ \A i \in 1..Len(a) :
       \/ a[i] = b[i]
       \/ a[i] \in UpperSet /\ ToLower[a[i]] = b[i]
       \/ b[i] \in UpperSet /\ ToLower[b[i]] = a[i]

prefix_ignoring_case(p, t) ==
  Len(p) <= Len(t) /\ same_ignoring_case(SubSeq(t, 1, Len(p)), p)

matches_bare_command(t) ==
  \E c \in seq_set(IF PLATFORM.name = "Windows" THEN WindowsShellCommands
                   ELSE PosixShellCommands) : same_ignoring_case(t, c)

matches_starter(t) ==
  \E s \in seq_set(IF PLATFORM.name = "Windows" THEN WindowsShellStarters
                   ELSE PosixShellStarters) : prefix_ignoring_case(s, t)

matches_exit_keyword(t) ==
  \E k \in seq_set(ExitKeywords) : same_ignoring_case(t, k)

FindSpace == <<"f","i","n","d"," ">>

\* C6: every entry of the active platform's bare-command table, in any
\* letter case, is classified Literal: is_natural_language returns False.
C6_BareCommandLiteral ==
  (result # <<>> /\ matches_bare_command(text)) => result = <<FALSE>>

C6_Witness ==
  /\ result = <<FALSE>>
  /\ matches_bare_command(text)
  /\ \E i \in 1..Len(text) : text[i] \in UpperSet
  /\ \E i \in 1..Len(text) : text[i] \in LowerSet

\* C7: a text that does not start with "!", is no exit keyword, equals no
\* bare command of the active platform and starts with none of its starter
\* tokens (all ignoring letter case) is classified NaturalLanguage.
C7_OtherwiseNaturalLanguage ==
  (/\ result # <<>>
   /\ ~startswith(text, <<"!">>)
   /\ ~matches_exit_keyword(text)
   /\ ~matches_bare_command(text)
   /\ ~matches_starter(text)) => result = <<TRUE>>

C7_Witness ==
  /\ result = <<TRUE>>
  /\ text = <<"s","h","o","w"," ","m","e"," ","l","a","r","g","e"," ","f","i","l","e","s">>

\* C8 as stated: an exit keyword in any letter case is classified
\* NaturalLanguage (is_natural_language returns True).
C8_ExitIsNaturalLanguage ==
  (result # <<>> /\ matches_exit_keyword(text)) => result = <<TRUE>>

\* C8 as amended: an exit keyword in any letter case is classified Literal
\* (is_natural_language returns False), so it is never a translation target.
C8_ExitIsLiteral ==
  (result # <<>> /\ matches_exit_keyword(text)) => result = <<FALSE>>

C8_Witness ==
  /\ result = <<FALSE>>
  /\ matches_exit_keyword(text)
  /\ \E i \in 1..Len(text) : text[i] \in UpperSet

\* C9 as stated: on every platform a text that begins with "find " and goes
\* on is matched by the starter rule and classified Literal.
C9_FindPrefixLiteral ==
  (/\ result # <<>>
   /\ prefix_ignoring_case(FindSpace, text)
   /\ Len(text) > Len(FindSpace)) => (matches_starter(text) /\ result = <<FALSE>>)

\* C9 as amended: on every platform a text that begins with "find " and goes
\* on is matched by no starter token and is classified NaturalLanguage; only
\* the bare word find is Literal.
C9_FindPrefixNaturalLanguage ==
  (/\ result # <<>>
   /\ prefix_ignoring_case(FindSpace, text)
   /\ Len(text) > Len(FindSpace)) => (~matches_starter(text) /\ result = <<TRUE>>)

C9_Witness ==
  /\ result = <<TRUE>>
  /\ PLATFORM.name = "Windows"
  /\ text = <<"f","i","n","d"," ","m","y"," ","l","o","s","t"," ","f","i","l","e","s">>

(***************************************************************************)
(* Context buffer harness: add_to_history called with arbitrary arguments  *)
(***************************************************************************)
\* add_to_history calls per behaviour
MaxAppends == 11

repeat(c, n) == [i \in 1..n |-> c]

\* (command, output) arguments: two short ones, one that fills more than half
\* of the character budget and whose output is cut, one that exceeds the
\* budget by itself
HistoryInputs ==
  { [command |-> <<"l","s">>, output |-> <<"a","\n","b","\n","c","\n">>],
    [command |-> <<"p","w","d">>, output |-> <<>>],
    [command |-> repeat("x", MAX_CONTEXT_CHARS \div 2),
     output  |-> repeat("o", OUTPUT_KEEP + 200)],
    [command |-> repeat("y", MAX_CONTEXT_CHARS + 100), output |-> <<>>] }

ClassifierIdle == text = <<>> /\ result = <<>>

InitHistory ==
  /\ PLATFORM = get_platform_info("Linux")
  /\ ClassifierIdle
  /\ command_history = <<>>
  /\ commands_run = 0
  /\ snapshot = <<>>
  /\ LoopIdle

AppendCall ==
  /\ commands_run < MaxAppends
  /\ \E a \in HistoryInputs : add_to_history(a.command, a.output)
  /\ UNCHANGED <<PLATFORM, text, result, snapshot>>
  /\ UNCHANGED loopvars

NextHistory == AppendCall

SpecHistory == InitHistory /\ [][NextHistory]_vars

RECURSIVE char_mass(_)
char_mass(h) ==
  IF h = <<>> THEN 0
  ELSE Len(h[Len(h)].command) + Len(h[Len(h)].output)
         + char_mass(SubSeq(h, 1, Len(h) - 1))

\* C1: after any sequence of add_to_history calls the buffer holds at most 10
\* entries, and its character mass is at most 4000 unless exactly one entry
\* remains.
C1_BufferBounded ==
  /\ Len(command_history) <= 10
  /\ (char_mass(command_history) <= 4000 \/ Len(command_history) = 1)

C1_Witness ==
  /\ commands_run > MAX_HISTORY
  /\ Len(command_history) = 2
  /\ char_mass(command_history) > MAX_CONTEXT_CHARS \div 2
  /\ Len(command_history[1].output) = OUTPUT_KEEP

(***************************************************************************)
(* Snapshot harness: format_history applied to one buffer                  *)
(***************************************************************************)
\* entries of the buffers format_history is applied to
MaxSnapshotLen == 6

SnapshotEntries ==
  { [command |-> <<"l","s">>, output |-> <<"a","\n","b","\n","c","\n">>],
    [command |-> <<"p","w","d">>, output |-> <<>>],
    [command |-> <<"c","a","t"," ","f">>, output |-> <<" ","\n">>],
    [command |-> <<"l","s">>, output |-> <<" ","a","\n","b">>] }

InitSnapshot ==
  /\ PLATFORM = get_platform_info("Linux")
  /\ ClassifierIdle
  /\ \E n \in 0..MaxSnapshotLen : command_history \in [1..n -> SnapshotEntries]
  /\ commands_run = Len(command_history)
  /\ snapshot = <<>>
  /\ LoopIdle

TakeSnapshot ==
  /\ snapshot = <<>>
  /\ snapshot' = <<format_history(command_history)>>
  /\ UNCHANGED <<PLATFORM, text, result, command_history, commands_run>>
  /\ UNCHANGED loopvars

NextSnapshot == TakeSnapshot

SpecSnapshot == InitSnapshot /\ [][NextSnapshot]_vars

min_of(a, b) == IF a < b THEN a ELSE b

\* C10: format_history returns the sentinel for an empty buffer and never an
\* empty string; otherwise its lines are, for each of the last min(5, n)
\* entries in buffer order, a line "<i>. $ <command>" numbered from 1,
\* followed by at most 2 lines, each three spaces and a line of the entry's
\* stored output.
C10_SnapshotShape ==
  snapshot # <<>> =>
    LET s == snapshot[1]
        n == Len(command_history)
        k == min_of(5, n)
        L == split(s, "\n")
        heads == {i \in 1..Len(L) : L[i] # <<>> /\ L[i][1] \in seq_set(Digits)}
        block_end(i) == IF \E j \in heads : j > i
                        THEN (CHOOSE j \in heads : j > i /\ \A x \in heads : x > i => j <= x) - 1
                        ELSE Len(L)
    IN  /\ s # <<>>
        /\ n = 0 => s = NO_PREVIOUS
        /\ n > 0 =>
             /\ Cardinality(heads) = k
             /\ 1 \in heads
             /\ \A i \in heads :
                  LET j == Cardinality({x \in heads : x <= i})
                      e == command_history[n - k + j]
                  IN  /\ L[i] = str_of_int(j) \o <<"."," ","$"," ">> \o e.command
                      /\ block_end(i) - i <= 2
                      /\ \A m \in (i + 1)..block_end(i) :
                           /\ Len(L[m]) >= 3
                           /\ SubSeq(L[m], 1, 3) = <<" "," "," ">>
                           /\ "\n" \notin seq_set(L[m])
                           /\ contains(e.output, SubSeq(L[m], 4, Len(L[m])))

C10_Witness ==
  /\ snapshot # <<>>
  /\ Len(command_history) = 6
  /\ command_history[6].output = <<"a","\n","b","\n","c","\n">>
  /\ command_history[5].output = <<" ","\n">>
  /\ command_history[2].output = <<>>

(***************************************************************************)
(* Claims about the session loop                                           *)
(***************************************************************************)
at(kind) == {i \in 1..Len(events) : events[i].ev = kind}

\* the events that execute a translated command: the child process or os.chdir
translated_runs ==
  {i \in at("run_command") \cup at("chdir") : events[i].origin = "translated"}

\* C2 as stated: a translated command is executed only after the user
\* answered a confirmation prompt that followed the display of the command.
C2_ConfirmedBeforeRun ==
  \A i \in translated_runs :
    \E j \in at("display"), k \in at("input") :
      j < k /\ k < i /\ events[k].prompt = "confirm"

\* C2 as amended: a translated command is executed only right after it was
\* displayed, and every displayed command is executed at once: no
\* confirmation is read in between.
C2_DisplayedThenRun ==
  /\ \A i \in translated_runs :
       i > 1 /\ events[i - 1] = [ev |-> "display", cmd |-> events[i].cmd]
  /\ \A j \in at("display") : j + 1 \in translated_runs

C2_Witness ==
  \E i \in translated_runs :
    /\ events[i].ev = "run_command"
    /\ events[i].cmd = <<"l","s"," ","-","l","a">>

\* a directory-change command: the verb cd in any letter case, or
\* Set-Location or chdir on the PowerShell dialect
is_directory_change(c) ==
  LET l == lower(c)
      verb(v) == l = v \/ startswith(l, v \o <<" ">>)
  IN  \/ verb(<<"c","d">>)
      \/ /\ PLATFORM.shell = "PowerShell"
         /\ (verb(<<"s","e","t","-","l","o","c","a","t","i","o","n">>)
             \/ verb(<<"c","h","d","i","r">>))

\* C3: no directory-change command is handed to run_command's child
\* process, however it reached the loop.
C3_DirectoryChangeInProcess ==
  \A i \in at("run_command") : ~is_directory_change(events[i].cmd)

max_index(S) == CHOOSE i \in S : \A j \in S : j <= i

\* C4: when every attempt of a translation request is answered 429 and the
\* user does not interrupt it, the pass makes exactly 3 attempts, sleeps between them for strictly
\* increasing times, prints the rate-limit message, and neither executes nor
\* records a command.
C4_RateLimitedThreeAttempts ==
  LET U == at("urlopen")
      W == {i \in at("sleep") : i < max_index(U)}
  IN  (pc = "Idle" /\ U # {} /\ at("interrupt") = {} /\ \A i \in U : events[i].code = 429) =>
        /\ Cardinality(U) = 3
        /\ \A i \in U : i # max_index(U) => (i + 1 \in W /\ i + 2 \in U)
        /\ Cardinality(W) = 2
        /\ \A i, j \in W : i < j => events[i].secs < events[j].secs
        /\ \E i \in at("print") : i > max_index(U) /\ events[i].what = "rate_limit"
        /\ at("run_command") \cup at("chdir") \cup at("display")
             \cup at("add_to_history") = {}
        /\ command_history = events[1].before.command_history
        /\ commands_run = events[1].before.commands_run

C4_Witness ==
  /\ pc = "Idle"
  /\ provider = "gemini"
  /\ Cardinality(at("urlopen")) = 3
  /\ \A i \in at("urlopen") : events[i].code = 429

\* C5: on every platform a child that runs past the deadline is killed and
\* run_command returns an empty stdout and the timeout message.
C5_OverdueChildKilled ==
  \A i \in at("returned") :
    events[i].overdue =>
      /\ events[i].killed
      /\ events[i].stdout = <<>>
      /\ events[i].stderr = TIMED_OUT

(***************************************************************************)
(* Buffer harness: add_to_history and format_history calls interleaved     *)
(***************************************************************************)
\* add_to_history calls per behaviour
MaxBufferOps == 11

\* (command, output) arguments: a short one, and one so long that two of
\* them exceed the character budget
BufferInputs ==
  { [command |-> <<"l","s">>, output |-> <<"a","\n","b","\n","c","\n">>],
    [command |-> repeat("x", MAX_CONTEXT_CHARS \div 2 + 1), output |-> <<>>] }

BufferAppend ==
  /\ commands_run < MaxBufferOps
  /\ \E a \in BufferInputs : add_to_history(a.command, a.output)
  /\ UNCHANGED <<PLATFORM, text, result, snapshot>>
  /\ UNCHANGED loopvars

\* format_history(), as get_command calls it before every translation
BufferSnapshot ==
  /\ snapshot' = <<format_history(command_history)>>
  /\ UNCHANGED <<PLATFORM, text, result, command_history, commands_run>>
  /\ UNCHANGED loopvars

NextBuffer == BufferAppend \/ BufferSnapshot

SpecBuffer == InitHistory /\ [][NextBuffer]_vars

\* s is a contiguous suffix of t
is_suffix(s, t) ==
  Len(s) <= Len(t) /\ s = SubSeq(t, Len(t) - Len(s) + 1, Len(t))

\* C11: the retained entries are always a contiguous suffix, in insertion
\* order, of all entries appended so far. Stated step by step: a call of
\* add_to_history leaves a suffix of the old buffer followed by the new
\* entry, and a step that appends nothing (a snapshot) leaves the buffer as
\* it is; a suffix of a suffix being a suffix, the buffer is at every moment
\* a suffix of the sequence of all appended entries.
C11_RetainedIsSuffix ==
  [][ /\ commands_run' = commands_run => command_history' = command_history
      /\ commands_run' # commands_run =>
           \E a \in BufferInputs :
             /\ command_history' # <<>>
             /\ is_suffix(command_history',
                          Append(command_history, history_entry(a.command, a.output)))
             /\ command_history'[Len(command_history')] = history_entry(a.command, a.output)
    ]_vars

\* entries were evicted, by count and by size, and a snapshot was taken of a
\* buffer that has since been appended to
C11_Witness ==
  /\ commands_run = MaxBufferOps
  /\ Len(command_history) = 2
  /\ Len(command_history[1].command) > MAX_CONTEXT_CHARS \div 2
  /\ snapshot # <<>>
  /\ snapshot[1] # format_history(command_history)

(***************************************************************************)
(* Claims about how the session loop ends, fails and changes directory     *)
(***************************************************************************)
\* the session loop is left for good
Terminal == {"Ended", "Exited", "Crashed"}

\* C12: the loop is left only through ExitFlow, which prints the session
\* summary; no builtin, command, error or interrupt ends the process in
\* another way.
C12_EndsOnlyThroughExitFlow ==
  pc \in Terminal => (pc = "Ended" /\ at("goodbye") # {})

\* C13: an interrupt that arrives while the main prompt is blocked in input()
\* prints the session summary and ends the loop, on every platform.
C13_InterruptAtPromptIsExitFlow ==
  \A i \in at("interrupt") :
    events[i].during = "input" =>
      (pc = "Ended" /\ \E j \in at("goodbye") : j > i)

\* the line the current pass has read, if it has read one
line_of_pass ==
  IF events # <<>> /\ events[1].ev = "input" /\ "line" \in DOMAIN events[1]
  THEN <<events[1].line>> ELSE <<>>

\* C14: a line that after trimming is exit, quit, bye or goodbye in any
\* letter case prints the session summary with commands_run and ends the
\* loop; for that line nothing is executed or translated and the buffer,
\* the counter and the working directory stay as they were.
C14_ExitKeywordEndsSession ==
  (line_of_pass # <<>> /\ matches_exit_keyword(strip(line_of_pass[1]))) =>
    /\ pc = "Ended"
    /\ events = <<events[1], [ev |-> "goodbye", commands |-> events[1].before.commands_run]>>
    /\ command_history = events[1].before.command_history
    /\ commands_run = events[1].before.commands_run
    /\ cwd = events[1].before.cwd
    /\ child = NoChild

C14_Witness ==
  /\ line_of_pass = << <<" ","Q","u","i","T"," ">> >>
  /\ pc = "Ended"
  /\ at("goodbye") # {}

\* C15: run_command returns a (stdout, stderr) pair for every outcome of the
\* child, and a child that fails to start, ends with a non-zero status or
\* runs past the deadline has its failure as text in the stderr element
\* (passes the user interrupts are left aside).
C15_FailureReturnedAsText ==
  at("interrupt") = {} =>
    /\ \A i \in at("returned") :
         events[i].failure \in {"start", "nonzero", "timeout"} => events[i].stderr # <<>>
    /\ pc = "Idle" => \A i \in at("run_command") : i + 1 \in at("returned")

\* the waits of the adapter's retry loop
adapter_sleeps == {i \in at("sleep") : events[i].by = "adapter"}

API_ERROR_PREFIX == <<"A","P","I"," ","e","r","r","o","r"," ">>

NETWORK_ERROR_PREFIX == <<"N","e","t","w","o","r","k"," ","e","r","r","o","r",":"," ">>

\* the exceptions of this pass that report a missing API key
missing_key_raises ==
  {i \in at("raise") : events[i].err \in {NO_GROQ_KEY, NO_GEMINI_KEY}}

\* the exceptions of this pass that report an HTTP error other than 429, or a
\* network error
request_failure_raises ==
  {i \in at("raise") : \/ startswith(events[i].err, API_ERROR_PREFIX)
                       \/ startswith(events[i].err, NETWORK_ERROR_PREFIX)}

\* C16 as stated: a translation failure other than rate limiting is raised
\* after exactly one outbound attempt and without any wait.
C16_RaisedAfterOneAttempt ==
  (at("interrupt") = {} /\ missing_key_raises \cup request_failure_raises # {}) =>
    /\ Cardinality(at("urlopen")) = 1
    /\ adapter_sleeps = {}

\* C16 as amended: an attempt that is not answered 429 is the last attempt
\* and is followed by no wait; the adapter waits only right after a 429
\* answer; an HTTP or network failure is raised right after the attempt that
\* met it, which may be the second or third attempt; and a missing key is
\* raised before any attempt.
C16_OnlyRateLimitRetried ==
  /\ \A i \in at("urlopen") :
       events[i].code # 429 =>
         \A j \in at("urlopen") \cup adapter_sleeps : j <= i
  /\ \A k \in adapter_sleeps :
       k > 1 /\ events[k - 1].ev = "urlopen" /\ events[k - 1].code = 429
  /\ at("interrupt") = {} =>
       \A i \in request_failure_raises :
         i > 1 /\ events[i - 1].ev = "urlopen" /\ events[i - 1].code \notin {200, 429}
  /\ missing_key_raises # {} => at("urlopen") \cup at("sleep") = {}

\* a request answered 429 and then 500: the error is raised on the second
\* attempt, after one wait
C16_Witness ==
  \E i \in request_failure_raises :
    /\ i > 3
    /\ events[i - 1].ev = "urlopen" /\ events[i - 1].code = 500
    /\ events[i - 2].ev = "sleep"
    /\ events[i - 3].ev = "urlopen" /\ events[i - 3].code = 429

\* C17: a translation request made while the provider's key is missing
\* makes no outbound call, executes nothing, and is answered by the auth
\* branch of the loop's handler.
C17_MissingKeyIsAuthError ==
  \A i \in missing_key_raises :
    /\ at("urlopen") = {}
    /\ at("run_command") \cup at("chdir") = {}
    /\ \E j \in at("print") : j > i /\ events[j].what = "auth_error"
    /\ \A j \in at("print") : events[j].what \notin {"error", "rate_limit"}

\* C18: a translation that is empty after stripping is not executed: no
\* child process, no directory change and no buffer entry comes of it.
C18_UnusableTranslationNotRun ==
  \A j \in at("display") :
    events[j].cmd = <<>> =>
      \A i \in at("run_command") \cup at("chdir") \cup at("add_to_history") : i < j

\* C19: the command displayed and executed after a translation holds no
\* markdown fence and no leading or trailing whitespace.
C19_CommandHasNoFence ==
  \A i \in at("display") \cup translated_runs :
    /\ ~contains(events[i].cmd, FENCE)
    /\ strip(events[i].cmd) = events[i].cmd

\* C20: when os.chdir fails (typed cd <path>, bare cd, or a translated
\* directory change), the working directory, the buffer and the counter are
\* what they were when the line was read, an error is printed, and the loop
\* is ready for the next line.
C20_FailedChdirLeavesCwd ==
  \A i \in at("chdir") :
    ~events[i].ok =>
      /\ cwd = events[1].before.cwd
      /\ command_history = events[1].before.command_history
      /\ commands_run = events[1].before.commands_run
      /\ \E j \in at("print") : j > i /\ events[j].what \in {"cd_error", "error"}
      /\ at("run_command") \cup at("add_to_history") = {}
      /\ pc = "Idle"

\* bare cd with the home directory missing
C20_Witness ==
  \E i \in at("chdir") :
    ~events[i].ok /\ events[i].cmd = CD /\ events[i].origin = "typed"

C22_InterruptLeavesBufferSound ==
  /\ pc = "Idle" => C1_BufferBounded
  /\ \A i \in at("interrupt") :
       events[i].during = "run_command" => \A j \in at("add_to_history") : j < i
  /\ pc = "Idle" => child = NoChild

(***************************************************************************)
(* Claims about lines that start with "!"                                  *)
(***************************************************************************)
BuiltinTokens == {BANG_HELP, BANG_VERSION, BANG_CREDITS, BANG_AUTH, BANG_UNINSTALL}

\* the pass read a line that, stripped, starts with "!"
bang_line_read ==
  /\ events # <<>>
  /\ "line" \in DOMAIN events[1]
  /\ startswith(strip(events[1].line), <<"!">>)

\* nothing of a translation request happened in the pass
nothing_translated ==
  /\ pc # "Translating"
  /\ at("urlopen") \cup at("display") \cup at("raise") \cup at("sleep") = {}
  /\ \A i \in at("run_command") \cup at("chdir") : events[i].origin # "translated"

\* the name of the builtin that the token u stands for
builtin_name(u) ==
  IF u = BANG_AUTH THEN "auth"
  ELSE IF u = BANG_UNINSTALL THEN "uninstall"
  ELSE IF u = BANG_HELP THEN "help"
  ELSE IF u = BANG_VERSION THEN "version"
  ELSE "credits"

\* the builtin named by the token u ran: its text was printed, or its prompt
\* was shown (and answered, closed or interrupted)
builtin_ran(u) ==
  /\ Len(events) >= 2
  /\ IF u \in {BANG_AUTH, BANG_UNINSTALL}
     THEN \/ events[2].ev = "input" /\ events[2].prompt = builtin_name(u)
          \/ events[2].ev \in {"eof", "interrupt"} /\ events[2].during = builtin_name(u)
     ELSE events[2] = [ev |-> "print", what |-> builtin_name(u)]

\* the pass handed exactly the command c to run_command, as the line's own
\* command and as the first thing after reading the line
executed_as_typed(c) ==
  /\ Len(events) >= 2
  /\ events[2] = [ev |-> "run_command", cmd |-> c, origin |-> "bang"]
  /\ at("run_command") = {2}

\* C23 as stated: a line starting with "!" is never translated; a builtin
\* token runs its builtin and executes nothing; for every other such line
\* the rest after the "!" is executed as a literal command.
C23_RemainderAlwaysExecuted ==
  bang_line_read =>
    LET u == strip(events[1].line)
    IN  /\ nothing_translated
        /\ u \in BuiltinTokens =>
             /\ builtin_ran(u)
             /\ at("run_command") \cup at("chdir") \cup at("add_to_history") = {}
        /\ u \notin BuiltinTokens => executed_as_typed(slice_from(u, 1))

\* C23 as amended: the same, except that a line that is nothing but "!" does
\* nothing at all; every non-empty rest is executed, whatever the classifier
\* says about it.
C23_BangNeverTranslated ==
  bang_line_read =>
    LET u == strip(events[1].line)
        cmd == slice_from(u, 1)
    IN  /\ nothing_translated
        /\ u \in BuiltinTokens =>
             /\ builtin_ran(u)
             /\ at("run_command") \cup at("chdir") \cup at("add_to_history") = {}
             /\ command_history = events[1].before.command_history
        /\ (u \notin BuiltinTokens /\ cmd # <<>>) => executed_as_typed(cmd)
        /\ (u \notin BuiltinTokens /\ cmd = <<>>) =>
             /\ Len(events) = 1
             /\ pc = "Idle"
             /\ bufvars = <<events[1].before.command_history, events[1].before.commands_run>>

\* what follows the "!" is natural language for the classifier, and it was
\* executed and recorded as typed
C23_Witness ==
  /\ bang_line_read
  /\ is_natural_language(slice_from(strip(events[1].line), 1))
  /\ executed_as_typed(slice_from(strip(events[1].line), 1))
  /\ pc = "Idle"
  /\ at("add_to_history") # {}
  /\ command_history # <<>>
  /\ command_history[Len(command_history)].command = slice_from(strip(events[1].line), 1)

(***************************************************************************)
(* Claims about translation and the buffer                                 *)
(***************************************************************************)
\* the pass read a line that the loop hands to get_command
translation_requested ==
  /\ events # <<>>
  /\ "line" \in DOMAIN events[1]
  /\ dispatch(strip(events[1].line)) = "translate"

\* C24: in a pass that asks for a translation, the buffer and the counter
\* are what they were when the line was read for as long as no run_command
\* call has returned; the command is recorded only after the call that ran
\* it, as a translated command, has returned; and when the translation
\* failed (get_command raised) nothing is executed and the buffer and the
\* counter are exactly what they were when the line was read.
C24_TranslationLeavesBuffer ==
  translation_requested =>
    LET before == <<events[1].before.command_history, events[1].before.commands_run>>
    IN  /\ at("returned") = {} => bufvars = before
        /\ \A j \in at("add_to_history") :
             \E r \in at("run_command"), i \in at("returned") :
               /\ r < i /\ i < j
               /\ events[r].origin = "translated"
               /\ events[r].cmd = events[j].cmd
        /\ at("raise") # {} =>
             /\ bufvars = before
             /\ at("run_command") \cup at("returned") \cup at("add_to_history") = {}

\* a translated command was run and recorded after two attempts
C24_Witness ==
  /\ translation_requested
  /\ pc = "Idle"
  /\ Cardinality(at("urlopen")) = 2
  /\ at("add_to_history") # {}
  /\ commands_run = events[1].before.commands_run + 1
  /\ command_history # events[1].before.command_history

=============================================================================
